---- MODULE Spec2Model ----
(***************************************************************************)
(* Model of scripts/check-missing.py: the pacman index parser              *)
(* (list_official_packages), the repology resolver (check_repology) and    *)
(* the per-key resolution loop of main.                                    *)
(*                                                                         *)
(* A package name or rosdep key is the sequence of its '-'-separated       *)
(* segments: "python-foo-doc" is <<"python", "foo", "doc">>.  A line of a  *)
(* pacman desc file is the sequence of its tokens; the token " " is        *)
(* whitespace.                                                             *)
(***************************************************************************)
EXTENDS Naturals, Sequences, FiniteSets, TLC

(***************************************************************************)
(* Bounds of the model.                                                    *)
(***************************************************************************)
\* keys taken from the rosdep files in one run
MaxKeys == 2
\* metadata records (tar members) read by the index loader in one run
MaxRecords == 2
\* fields of one metadata record
MaxFields == 2
\* names of an 'arch' list handed to the validity test
MaxArch == 2
\* versions of a version-keyed mapping handed to the normalization
MaxVersions == 2

(***************************************************************************)
(* String helpers on segment sequences.                                    *)
(***************************************************************************)
\* h.endswith("-" + suf)
EndsWith(h, suf) == Len(h) >= 2 /\ h[Len(h)] = suf

\* h.startswith(pre + "-")
StartsWith(h, pre) == Len(h) >= 2 /\ h[1] = pre

\* set(l) of a list
ToSet(l) == {l[i] : i \in 1..Len(l)}

\* every ordering list(s) may produce from a set
Orderings(s) == {q \in [1..Cardinality(s) -> s] : ToSet(q) = s}

(***************************************************************************)
(* Inputs.                                                                 *)
(***************************************************************************)
Keys == {<<"boost">>, <<"python", "foo">>, <<"python3", "foo">>}

\* names the two loaded name sets are drawn from
PkgNames == {<<"boost">>, <<"python2", "foo">>}

\* YAML values: null, a list, or a dict given as its (key, value) pairs in order
None == [t |-> "none", l |-> <<>>, d |-> <<>>]
List(l) == [t |-> "list", l |-> l, d |-> <<>>]
Dict(d) == [t |-> "dict", l |-> <<>>, d |-> d]

\* the 'arch' entry of a key: absent, or one of these lists
ArchLists == {<<>>, <<<<"boost">>>>, <<<<"boost">>, <<"python2", "foo">>>>}

\* the mappings of a key for other distributions, as (os, value) pairs
OtherMappings ==
  { <<>>,
    << <<"debian", List(<<"c1">>)>> >>,
    << <<"fedora", List(<<"c1">>)>>, <<"debian", None>> >>,
    << <<"ubuntu", Dict(<< <<"bionic", List(<<"c1">>)>>, <<"focal", List(<<"c2">>)>> >>)>> >>,
    << <<"debian", Dict(<< <<"*", List(<<"c1">>)>>, <<"buster", List(<<"c2">>)>> >>)>> >>,
    << <<"ubuntu", Dict(<< <<"jammy", List(<<"c1">>)>>, <<"focal", List(<<"c2">>)>> >>)>> >>,
    << <<"ubuntu", Dict(<< <<"jammy", List(<<"c1">>)>> >>)>> >>,
    << <<"debian", Dict(<< <<"stretch", None>>, <<"buster", List(<<"c1", "c2">>)>> >>)>> >>,
    << <<"debian", Dict(<< <<"buster", List(<<"c1">>)>>, <<"*", List(<<>>)>> >>)>>,
       <<"ubuntu", List(<<"c2">>)>> >> }

\* rd_map[key] in the runs over several keys: with or without an 'arch'
\* entry, with no other mapping or with one candidate for one os
Entries ==
  LET others == {<<>>, << <<"debian", List(<<"c1">>)>> >>}
  IN others \cup {<< <<"arch", List(a)>> >> \o m : a \in ArchLists, m \in others}

\* one record of a repology answer
Hit(repo, subrepo, binname) == [repo |-> repo, subrepo |-> subrepo, binname |-> binname]

\* the JSON documents a repology query answers with in the runs over several keys
FewResponses ==
  { <<>>,
    << Hit("arch", "core", <<"foo">>) >>,
    << Hit("aur", "", <<"foo", "git">>) >> }

\* the JSON documents a repology query may answer with
Responses ==
  { <<>>,
    << Hit("arch", "core", <<"foo">>) >>,
    << Hit("arch", "core", <<"foo", "doc">>), Hit("arch", "extra", <<"foo">>) >>,
    << Hit("arch", "extra", <<"python", "foo">>), Hit("aur", "", <<"foo", "git">>) >>,
    << Hit("arch", "community", <<"python2", "foo">>) >>,
    << Hit("aur", "", <<"foo">>), Hit("aur", "", <<"foo", "hg">>) >>,
    << Hit("debian_stable", "", <<"foo">>), Hit("arch", "multilib", <<"foo">>) >> }

(***************************************************************************)
(* check_repology: the pure parts.                                         *)
(***************************************************************************)
\* rosdep os name -> rosdep os version -> repology repository identifier
os_lut ==
  [ debian |-> ("*" :> "debian_stable" @@ "stretch" :> "debian_oldstable" @@
                "buster" :> "debian_stable"),
    ubuntu |-> ("*" :> "ubuntu_20_04" @@ "bionic" :> "ubuntu_18_04" @@
                "focal" :> "ubuntu_20_04" @@ "trusty" :> "ubuntu_14_04" @@
                "xenial" :> "ubuntu_16_04") ]

\* the same lookup with a fall-back to the wildcard identifier
VersionIdWildcard(os, osver) ==
  IF osver \in DOMAIN os_lut[os] THEN <<os_lut[os][osver]>> ELSE <<os_lut[os]["*"]>>

\* the identifier of one (os, osver) pair of a version-keyed mapping:
\* <<id>> when osver is a key of os_lut[os], <<>> when the pair is passed over
VersionId(os, osver) ==
  IF osver \in DOMAIN os_lut[os] THEN <<os_lut[os][osver]>> ELSE <<>>

\* d[k] = v on an insertion-ordered dict given as its (key, value) pairs
DictSet(d, k, v) ==
  IF \E i \in DOMAIN d : d[i][1] = k
  THEN [i \in DOMAIN d |-> IF d[i][1] = k THEN <<k, v>> ELSE d[i]]
  ELSE Append(d, <<k, v>>)

RECURSIVE VersionLoop(_, _, _, _)
\* the loop over the versions of one os, from position i on
VersionLoop(fh, os, vers, i) ==
  IF i > Len(vers) THEN fh
  ELSE LET osver == vers[i][1]
           val == vers[i][2]
           id == VersionId(os, osver)
       IN IF id # <<>> /\ val.t # "none"
          THEN VersionLoop(DictSet(fh, id[1], val.l), os, vers, i + 1)
          ELSE VersionLoop(fh, os, vers, i + 1)

RECURSIVE OsLoop(_, _, _)
\* the loop over the os names of rosdep_mappings, from position i on
OsLoop(fh, m, i) ==
  IF i > Len(m) THEN fh
  ELSE LET os == m[i][1]
           val == m[i][2]
       IN IF os \in DOMAIN os_lut
          THEN IF val.t = "dict"
               THEN OsLoop(VersionLoop(fh, os, val.d, 1), m, i + 1)
               ELSE IF val.t # "none"
                    THEN OsLoop(DictSet(fh, os_lut[os]["*"], val.l), m, i + 1)
                    ELSE OsLoop(fh, m, i + 1)
          ELSE OsLoop(fh, m, i + 1)

\* foreign_hits as built from rosdep_mappings: (repology id, candidates) pairs
ForeignHits(m) == OsLoop(<<>>, m, 1)

\* the suffixes filter_hits drops
DroppedSuffixes == {"doc", "docs", "demos", "git", "svn", "hg"}

\* filter_hits without the test for "-hg"
filter_hits_no_hg(key, hits) ==
  LET kept == {h \in hits : \A s \in DroppedSuffixes \ {"hg"} : ~EndsWith(h, s)}
  IN IF StartsWith(key, "python")
     THEN {h \in kept : ~StartsWith(h, "python")}
     ELSE IF StartsWith(key, "python3")
          THEN {h \in kept : ~StartsWith(h, "python2")}
          ELSE kept

\* filter_hits(hits) for the key of the call
filter_hits(key, hits) ==
  LET kept == {h \in hits : \A s \in DroppedSuffixes : ~EndsWith(h, s)}
  IN IF StartsWith(key, "python")
     THEN {h \in kept : ~StartsWith(h, "python")}
     ELSE IF StartsWith(key, "python3")
          THEN {h \in kept : ~StartsWith(h, "python2")}
          ELSE kept

\* the binnames of the arch hits of one subrepo
SubrepoHits(repo_hits, sub) ==
  {h.binname : h \in {x \in ToSet(repo_hits) : x.subrepo = sub}}

\* the group selection with extra tried before core
SelectGroupExtraFirst(repo_hits, aur_hits) ==
  IF SubrepoHits(repo_hits, "extra") # {}
  THEN [group |-> "extra", hits |-> SubrepoHits(repo_hits, "extra")]
  ELSE IF SubrepoHits(repo_hits, "core") # {}
  THEN [group |-> "core", hits |-> SubrepoHits(repo_hits, "core")]
  ELSE IF SubrepoHits(repo_hits, "community") # {}
  THEN [group |-> "community", hits |-> SubrepoHits(repo_hits, "community")]
  ELSE IF Len(aur_hits) > 0
  THEN [group |-> "aur", hits |-> ToSet(aur_hits)]
  ELSE [group |-> "none", hits |-> {}]

\* the group selection without the fall-back to the aur hits
SelectGroupNoAur(repo_hits, aur_hits) ==
  IF SubrepoHits(repo_hits, "core") # {}
  THEN [group |-> "core", hits |-> SubrepoHits(repo_hits, "core")]
  ELSE IF SubrepoHits(repo_hits, "extra") # {}
  THEN [group |-> "extra", hits |-> SubrepoHits(repo_hits, "extra")]
  ELSE IF SubrepoHits(repo_hits, "community") # {}
  THEN [group |-> "community", hits |-> SubrepoHits(repo_hits, "community")]
  ELSE [group |-> "none", hits |-> {}]

\* the group one os identifier returns from: the first of core, extra,
\* community, aur with a hit; "none" when the loop goes on to the next os
SelectGroup(repo_hits, aur_hits) ==
  IF SubrepoHits(repo_hits, "core") # {}
  THEN [group |-> "core", hits |-> SubrepoHits(repo_hits, "core")]
  ELSE IF SubrepoHits(repo_hits, "extra") # {}
  THEN [group |-> "extra", hits |-> SubrepoHits(repo_hits, "extra")]
  ELSE IF SubrepoHits(repo_hits, "community") # {}
  THEN [group |-> "community", hits |-> SubrepoHits(repo_hits, "community")]
  ELSE IF Len(aur_hits) > 0
  THEN [group |-> "aur", hits |-> ToSet(aur_hits)]
  ELSE [group |-> "none", hits |-> {}]

\* the arch hits of one answer, in order
ArchHitsOf(data) == SelectSeq(data, LAMBDA d : d.repo = "arch")

RECURSIVE AurNamesOf(_)
\* the binnames of the aur hits of one answer, in order
AurNamesOf(data) ==
  IF data = <<>> THEN <<>>
  ELSE IF Head(data).repo = "aur"
       THEN <<Head(data).binname>> \o AurNamesOf(Tail(data))
       ELSE AurNamesOf(Tail(data))

(***************************************************************************)
(* main: the pure parts.                                                   *)
(***************************************************************************)
\* 'arch' in rd_map[key]
HasArch(e) == \E i \in DOMAIN e : e[i][1] = "arch"

\* rd_map[key]['arch']
ArchOf(e) == e[CHOOSE i \in DOMAIN e : e[i][1] = "arch"][2].l

\* the validity test with any() in place of all()
key_is_valid_any(e, official, aur) ==
  /\ HasArch(e)
  /\ \/ \E p \in ToSet(ArchOf(e)) : p \in official
     \/ \E p \in ToSet(ArchOf(e)) : p \in aur

\* key_is_valid as main computes it for rd_map[key] = e
key_is_valid_of(e, official, aur) ==
  /\ HasArch(e)
  /\ \/ \A p \in ToSet(ArchOf(e)) : p \in official
     \/ \A p \in ToSet(ArchOf(e)) : p \in aur

\* the guess of main for a key
Guess(k) ==
  IF StartsWith(k, "python") THEN <<"python2">> \o Tail(k)
  ELSE IF StartsWith(k, "python3") THEN <<"python">> \o Tail(k)
  ELSE k

\* the tier test with the AUR set asked first
GuessTierAurFirst(guess, official, aur) ==
  IF guess \in aur THEN "aur"
  ELSE IF guess \in official THEN "official"
  ELSE "none"

\* the tier the guess resolves in: "none" sends the key to check_repology
GuessTier(guess, official, aur) ==
  IF guess \in official THEN "official"
  ELSE IF guess \in aur THEN "aur"
  ELSE "none"

\* an entry that lists the key itself
KeyEntry(k, guess) == <<k>>

\* the entry main writes for a key resolved by its guess
GuessEntry(k, guess) == <<guess>>

\* the rosdep files main reads: base.yaml, python.yaml
NumFiles == 2

StatNames == {"official", "aur", "repology", "n/a"}

(***************************************************************************)
(* State.                                                                  *)
(***************************************************************************)
VARIABLES
  official_packages, \* main: the set list_official_packages returned
  aur_packages,      \* main: the set list_aur_packages returned
  rd_files,          \* input: the keys of each rosdep file
  stats,             \* main: the four counters
  missing_keys,      \* main: key -> its 'arch' list
  file,              \* main: how many of the rosdep files have been opened
  seen,              \* main: the keys of the current file already iterated
  key,               \* main: the key of the current iteration
  key_is_valid,      \* main: key_is_valid of the current iteration
  pc,                \* "main", "query" (inside check_repology), "done", "aborted"
  failure,           \* the exception that ended the run: "none", "fetch", "parse"
  foreign_hits,      \* check_repology: (repology id, candidates) pairs
  osi,               \* check_repology: position of the outer loop in foreign_hits
  ci,                \* check_repology: position of the inner loop in the candidates
  repo_hits,         \* check_repology: arch hits of the current os
  aur_hits,          \* check_repology: aur binnames of the current os
  tier,              \* history: key -> the counter its entry was counted under
  queries,           \* history: the (id, name) queries of the current call
  ret,               \* history: the last return: group, os position, groups hit, unfiltered hits
  archive,           \* loader: the lines of the tar member being read
  members,           \* loader: tar members read so far
  lineno,            \* loader: position in archive
  next_line_has_name, \* loader: the flag of the line loop
  pkgs,              \* loader: the names appended so far
  expected,          \* history: the names of the members already read
  fn_in,             \* the argument of the function under test
  fn_out             \* its result

mainVars == <<official_packages, aur_packages, rd_files, stats, missing_keys,
              file, seen, key, key_is_valid, pc, failure, tier>>
callVars == <<foreign_hits, osi, ci, repo_hits, aur_hits, queries, ret>>
loaderVars == <<archive, members, lineno, next_line_has_name, pkgs, expected>>
fnVars == <<fn_in, fn_out>>
vars == <<mainVars, callVars, loaderVars, fnVars>>

NoStats == [s \in StatNames |-> 0]
NoRet == [group |-> "", os |-> 0, had |-> {}, raw |-> {}]

\* the variables of main before any file is read
InitMain ==
  /\ stats = NoStats
  /\ missing_keys = <<>>
  /\ file = 0
  /\ seen = {}
  /\ key = <<>>
  /\ key_is_valid = FALSE
  /\ pc = "main"
  /\ failure = "none"
  /\ tier = <<>>

\* no call of check_repology is in progress
InitCall ==
  /\ foreign_hits = <<>>
  /\ osi = 0
  /\ ci = 0
  /\ repo_hits = <<>>
  /\ aur_hits = <<>>
  /\ queries = <<>>
  /\ ret = NoRet

InitLoaderIdle ==
  /\ archive = <<>>
  /\ members = 0
  /\ lineno = 0
  /\ next_line_has_name = FALSE
  /\ pkgs = {}
  /\ expected = {}

InitFnIdle ==
  /\ fn_in = <<>>
  /\ fn_out = <<>>

\* the number of keys of the rosdep files
NumKeys(files) == Cardinality(files[1]) + Cardinality(files[2])

\* main after the two name sets are loaded, for any two name sets and any
\* rosdep files of at most MaxKeys keys
Init ==
  /\ official_packages \in SUBSET PkgNames
  /\ aur_packages \in SUBSET PkgNames
  /\ rd_files \in {f \in [1..NumFiles -> SUBSET Keys] : NumKeys(f) <= MaxKeys}
  /\ InitMain
  /\ InitCall
  /\ InitLoaderIdle
  /\ InitFnIdle

\* main after the two name sets are loaded, both empty, for rosdep files of
\* one key
InitOneKey ==
  /\ official_packages = {}
  /\ aur_packages = {}
  /\ rd_files \in {f \in [1..NumFiles -> SUBSET Keys] : NumKeys(f) = 1}
  /\ InitMain
  /\ InitCall
  /\ InitLoaderIdle
  /\ InitFnIdle

(***************************************************************************)
(* main: the loop over the files and their keys.                           *)
(***************************************************************************)
\* f[k] = v on a dict
Assign(f, k, v) == [x \in DOMAIN f \cup {k} |-> IF x = k THEN v ELSE f[x]]

\* missing_keys[k] = {"arch": l} and stats[t] += 1
Record(k, l, t) ==
  /\ missing_keys' = Assign(missing_keys, k, l)
  /\ stats' = [stats EXCEPT ![t] = @ + 1]
  /\ tier' = Assign(tier, k, t)

\* the locals of check_repology are gone
CallEnds ==
  /\ foreign_hits' = <<>>
  /\ osi' = 0
  /\ ci' = 0
  /\ repo_hits' = <<>>
  /\ aur_hits' = <<>>
  /\ queries' = <<>>

\* the loop over the keys of the current file is over (or no file is open yet)
FileDone == IF file = 0 THEN TRUE ELSE seen = rd_files[file]

\* the for loop takes key k, whose value in the file is e
Iterate(k, e) ==
  /\ pc = "main"
  /\ file >= 1
  /\ k \in rd_files[file] \ seen
  /\ key' = k
  /\ seen' = seen \cup {k}
  /\ key_is_valid' = key_is_valid_of(e, official_packages, aur_packages)
  /\ UNCHANGED <<official_packages, aur_packages, rd_files, file, failure>>

\* urlopen and safe_load of the next rosdep file succeed
LoadFile ==
  /\ pc = "main"
  /\ FileDone
  /\ file < NumFiles
  /\ file' = file + 1
  /\ seen' = {}
  /\ UNCHANGED <<official_packages, aur_packages, rd_files, stats, missing_keys,
                 key, key_is_valid, pc, failure, tier>>
  /\ UNCHANGED <<callVars, loaderVars, fnVars>>

\* urlopen of the next rosdep file raises: the run ends with the exception
FetchFails ==
  /\ pc = "main"
  /\ FileDone
  /\ file < NumFiles
  /\ pc' = "aborted"
  /\ failure' = "fetch"
  /\ UNCHANGED <<official_packages, aur_packages, rd_files, stats, missing_keys,
                 file, seen, key, key_is_valid, tier>>
  /\ UNCHANGED <<callVars, loaderVars, fnVars>>

\* a key whose 'arch' entry is valid: nothing is recorded
KeyValid ==
  \E k \in Keys, e \in Entries :
    /\ Iterate(k, e)
    /\ key_is_valid'
    /\ UNCHANGED <<stats, missing_keys, tier, pc>>
    /\ UNCHANGED <<callVars, loaderVars, fnVars>>

\* an invalid key whose guess is an official package
GuessOfficial ==
  \E k \in Keys, e \in Entries :
    /\ Iterate(k, e)
    /\ ~key_is_valid'
    /\ GuessTier(Guess(k), official_packages, aur_packages) = "official"
    /\ Record(k, GuessEntry(k, Guess(k)), "official")
    /\ UNCHANGED pc
    /\ UNCHANGED <<callVars, loaderVars, fnVars>>

\* an invalid key whose guess is an AUR package
GuessAur ==
  \E k \in Keys, e \in Entries :
    /\ Iterate(k, e)
    /\ ~key_is_valid'
    /\ GuessTier(Guess(k), official_packages, aur_packages) = "aur"
    /\ Record(k, GuessEntry(k, Guess(k)), "aur")
    /\ UNCHANGED pc
    /\ UNCHANGED <<callVars, loaderVars, fnVars>>

\* an invalid key whose guess is in neither set, its value in the file
\* one of es: check_repology is entered and foreign_hits is built
CallRepologyFor(es) ==
  \E k \in Keys, e \in es :
    /\ Iterate(k, e)
    /\ ~key_is_valid'
    /\ GuessTier(Guess(k), official_packages, aur_packages) = "none"
    /\ pc' = "query"
    /\ foreign_hits' = ForeignHits(e)
    /\ osi' = 1
    /\ ci' = 1
    /\ repo_hits' = <<>>
    /\ aur_hits' = <<>>
    /\ queries' = <<>>
    /\ UNCHANGED <<stats, missing_keys, tier, ret>>
    /\ UNCHANGED <<loaderVars, fnVars>>

CallRepology == CallRepologyFor(Entries)

CallRepologyAny == CallRepologyFor(OtherMappings)

\* all files are read: the stats are printed and the output is written
Finish ==
  /\ pc = "main"
  /\ FileDone
  /\ file = NumFiles
  /\ pc' = "done"
  /\ UNCHANGED <<official_packages, aur_packages, rd_files, stats, missing_keys,
                 file, seen, key, key_is_valid, failure, tier>>
  /\ UNCHANGED <<callVars, loaderVars, fnVars>>

(***************************************************************************)
(* check_repology: the loops over foreign_hits and its candidates.         *)
(***************************************************************************)
\* the inner loop stands at a candidate of the current os
AtCandidate ==
  /\ pc = "query"
  /\ osi <= Len(foreign_hits)
  /\ ci <= Len(foreign_hits[osi][2])

\* the inner loop of the current os is over
AfterCandidates ==
  /\ pc = "query"
  /\ osi <= Len(foreign_hits)
  /\ ci > Len(foreign_hits[osi][2])

ThisQuery == <<foreign_hits[osi][1], foreign_hits[osi][2][ci]>>

\* the query is answered with a list of hits, one of rs
QueryOkFrom(rs) ==
  \E data \in rs :
    /\ AtCandidate
    /\ repo_hits' = repo_hits \o ArchHitsOf(data)
    /\ aur_hits' = aur_hits \o AurNamesOf(data)
    /\ ci' = ci + 1
    /\ queries' = Append(queries, ThisQuery)
    /\ UNCHANGED <<foreign_hits, osi, ret>>
    /\ UNCHANGED <<mainVars, loaderVars, fnVars>>

QueryOk == QueryOkFrom(FewResponses)

QueryOkAny == QueryOkFrom(Responses)

\* urlopen raises URLError: caught, the loop continues
QueryURLError ==
  /\ AtCandidate
  /\ ci' = ci + 1
  /\ queries' = Append(queries, ThisQuery)
  /\ UNCHANGED <<foreign_hits, osi, repo_hits, aur_hits, ret>>
  /\ UNCHANGED <<mainVars, loaderVars, fnVars>>

\* the answer is not the JSON expected: json.loads or the subscripts raise
\* an exception that neither except clause names, and the run ends with it
QueryParseError ==
  /\ AtCandidate
  /\ pc' = "aborted"
  /\ failure' = "parse"
  /\ CallEnds
  /\ UNCHANGED ret
  /\ UNCHANGED <<official_packages, aur_packages, rd_files, stats, missing_keys,
                 file, seen, key, key_is_valid, tier>>
  /\ UNCHANGED <<loaderVars, fnVars>>

\* the groups of the current os that hold a hit
GroupsHit ==
  {g \in {"core", "extra", "community"} : SubrepoHits(repo_hits, g) # {}}
    \cup (IF Len(aur_hits) > 0 THEN {"aur"} ELSE {})

\* main after check_repology returned the set res
AfterCall(res) ==
  \E l \in Orderings(res) :
    IF Len(l) > 0 THEN Record(key, l, "repology") ELSE Record(key, <<>>, "n/a")

\* a group of the current os holds a hit: its filtered hits are returned
ReturnHits ==
  /\ AfterCandidates
  /\ SelectGroup(repo_hits, aur_hits).group # "none"
  /\ AfterCall(filter_hits(key, SelectGroup(repo_hits, aur_hits).hits))
  /\ ret' = [group |-> SelectGroup(repo_hits, aur_hits).group, os |-> osi,
             had |-> GroupsHit, raw |-> SelectGroup(repo_hits, aur_hits).hits]
  /\ pc' = "main"
  /\ CallEnds
  /\ UNCHANGED <<official_packages, aur_packages, rd_files, file, seen, key,
                 key_is_valid, failure>>
  /\ UNCHANGED <<loaderVars, fnVars>>

\* no group of the current os holds a hit: on to the next os
NextOs ==
  /\ AfterCandidates
  /\ SelectGroup(repo_hits, aur_hits).group = "none"
  /\ osi' = osi + 1
  /\ ci' = 1
  /\ repo_hits' = <<>>
  /\ aur_hits' = <<>>
  /\ UNCHANGED <<foreign_hits, queries, ret>>
  /\ UNCHANGED <<mainVars, loaderVars, fnVars>>

\* the outer loop is over: [] is returned
ReturnEmpty ==
  /\ pc = "query"
  /\ osi > Len(foreign_hits)
  /\ AfterCall({})
  /\ ret' = [group |-> "none", os |-> 0, had |-> {}, raw |-> {}]
  /\ pc' = "main"
  /\ CallEnds
  /\ UNCHANGED <<official_packages, aur_packages, rd_files, file, seen, key,
                 key_is_valid, failure>>
  /\ UNCHANGED <<loaderVars, fnVars>>

\* a run of main over rosdep files of at most MaxKeys keys
Next ==
  \/ LoadFile
  \/ FetchFails
  \/ KeyValid
  \/ GuessOfficial
  \/ GuessAur
  \/ CallRepology
  \/ QueryOk
  \/ QueryURLError
  \/ QueryParseError
  \/ ReturnHits
  \/ NextOs
  \/ ReturnEmpty
  \/ Finish

Spec == Init /\ [][Next]_vars

\* a run of main over one key that goes to check_repology, for any mapping
\* of the key and any answer of repology
NextOneKey ==
  \/ LoadFile
  \/ FetchFails
  \/ CallRepologyAny
  \/ QueryOkAny
  \/ QueryURLError
  \/ QueryParseError
  \/ ReturnHits
  \/ NextOs
  \/ ReturnEmpty
  \/ Finish

SpecOneKey == InitOneKey /\ [][NextOneKey]_vars

(***************************************************************************)
(* list_official_packages: the line loop over the members of the archives. *)
(***************************************************************************)
\* raw_line.decode('utf-8').strip()
RECURSIVE Strip(_)
Strip(raw) ==
  IF raw = <<>> THEN raw
  ELSE IF Head(raw) = " " THEN Strip(Tail(raw))
  ELSE IF raw[Len(raw)] = " " THEN Strip(SubSeq(raw, 1, Len(raw) - 1))
  ELSE raw

\* marker in line
Contains(line, marker) == \E i \in DOMAIN line : line[i] = marker

\* the fields a desc file is made of: a marker line, value lines, and the
\* blank line that ends the field, or none
Fields ==
  { << <<"%NAME%">>, <<"zlib">>, <<>> >>,
    << <<"%NAME%">>, <<"zlib">> >>,
    << <<"%PROVIDES%">>, <<"libz">>, <<" ", "libz.so", " ">>, <<" ">> >>,
    << <<"%PROVIDES%">>, <<"libz">>, <<"libz.so">> >>,
    << <<"%DESC%">>, <<"text">>, <<>> >>,
    << <<"%DESC%">>, <<"see", " ", "%NAME%">>, <<"text">>, <<>> >>,
    << <<" ">> >> }

RECURSIVE Concat(_)
Concat(fs) == IF fs = <<>> THEN <<>> ELSE Head(fs) \o Concat(Tail(fs))

\* the desc files: at most MaxFields fields each
Records ==
  {Concat(fs) : fs \in UNION {[1..n -> Fields] : n \in 0..MaxFields}}

\* the flag kept from the member before
FlagCarriedOver(flag) == flag

\* next_line_has_name at the first line of a member
FlagAtMemberStart(flag) == FALSE

\* the loader before the first member is read
InitLoader ==
  /\ archive = <<>>
  /\ members = 0
  /\ lineno = 1
  /\ next_line_has_name = FALSE
  /\ pkgs = {}
  /\ expected = {}
  /\ official_packages = {}
  /\ aur_packages = {}
  /\ rd_files = [i \in 1..NumFiles |-> {}]
  /\ InitMain
  /\ InitCall
  /\ InitFnIdle

\* the names a finished member adds: its non-blank lines after a line that
\* holds a name marker, with no blank line in between
NamesOf(lines, n) ==
  {Strip(lines[i]) : i \in
     {i \in 1..n :
        /\ Strip(lines[i]) # <<>>
        /\ \E j \in 1..(i - 1) :
             /\ Contains(lines[j], "%NAME%") \/ Contains(lines[j], "%PROVIDES%")
             /\ \A m \in (j + 1)..(i - 1) : Strip(lines[m]) # <<>>}}

\* the next member is a file: its lines are read
OpenMember ==
  \E rec \in Records :
    /\ archive = <<>>
    /\ members < MaxRecords
    /\ archive' = rec
    /\ members' = members + 1
    /\ lineno' = 1
    /\ next_line_has_name' = FlagAtMemberStart(next_line_has_name)
    /\ UNCHANGED <<pkgs, expected>>
    /\ UNCHANGED <<mainVars, callVars, fnVars>>

\* the next member is not a file: it is passed over
SkipMember ==
  /\ archive = <<>>
  /\ members < MaxRecords
  /\ members' = members + 1
  /\ UNCHANGED <<archive, lineno, next_line_has_name, pkgs, expected>>
  /\ UNCHANGED <<mainVars, callVars, fnVars>>

\* the line loop of the member is over
CloseMember ==
  /\ archive # <<>>
  /\ lineno > Len(archive)
  /\ archive' = <<>>
  /\ lineno' = 1
  /\ expected' = expected \cup NamesOf(archive, Len(archive))
  /\ UNCHANGED <<members, next_line_has_name, pkgs>>
  /\ UNCHANGED <<mainVars, callVars, fnVars>>

\* one pass of the line loop
ReadLine ==
  /\ lineno <= Len(archive)
  /\ LET line == Strip(archive[lineno])
     IN IF next_line_has_name
        THEN IF Len(line) > 0
             THEN pkgs' = pkgs \cup {line} /\ UNCHANGED next_line_has_name
             ELSE next_line_has_name' = FALSE /\ UNCHANGED pkgs
        ELSE IF Contains(line, "%NAME%")
             THEN next_line_has_name' = TRUE /\ UNCHANGED pkgs
             ELSE IF Contains(line, "%PROVIDES%")
                  THEN next_line_has_name' = TRUE /\ UNCHANGED pkgs
                  ELSE UNCHANGED <<next_line_has_name, pkgs>>
  /\ lineno' = lineno + 1
  /\ UNCHANGED <<archive, members, expected>>
  /\ UNCHANGED <<mainVars, callVars, fnVars>>

NextLoader ==
  \/ OpenMember
  \/ SkipMember
  \/ ReadLine
  \/ CloseMember

SpecLoader == InitLoader /\ [][NextLoader]_vars

(***************************************************************************)
(* The validity test of main and the normalization of check_repology,     *)
(* each applied to one argument.                                           *)
(***************************************************************************)
\* the lists of at most n names of s
ListsOf(s, n) == UNION {[1..m -> s] : m \in 0..n}

\* rd_map[key] without and with an 'arch' list, and the two name sets
ValidateInputs ==
  { [f |-> "validate", e |-> e, official |-> o, aur |-> a] :
      e \in {<<>>} \cup {<< <<"arch", List(l)>> >> : l \in ListsOf(PkgNames, MaxArch)},
      o \in SUBSET PkgNames, a \in SUBSET PkgNames }

VersionNames == {"*", "buster", "jammy"}

VersionValues == {None, List(<<>>), List(<<"c1">>), List(<<"c2">>)}

\* version-keyed mappings: at most MaxVersions versions, no version twice
VersionDicts ==
  {d \in UNION {[1..n -> VersionNames \X VersionValues] : n \in 0..MaxVersions} :
     \A i, j \in DOMAIN d : i # j => d[i][1] # d[j][1]}

OsValues == {None, List(<<>>), List(<<"c1">>)} \cup {Dict(d) : d \in VersionDicts}

OsNames == {"debian", "ubuntu", "fedora"}

\* rosdep_mappings of one os, or of two with a flat list for the second
NormalizeInputs ==
  LET one == {<< <<os, v>> >> : os \in OsNames, v \in OsValues}
      two == {m \o << <<os, List(<<"c3">>)>> >> : m \in one, os \in OsNames}
  IN { [f |-> "normalize", e |-> m, official |-> {}, aur |-> {}] :
         m \in one \cup {m \in two : m[1][1] # m[2][1]} }

NoResult == [done |-> FALSE, valid |-> FALSE, fh |-> <<>>]

InitFn ==
  /\ fn_in \in ValidateInputs \cup NormalizeInputs
  /\ fn_out = NoResult
  /\ official_packages = {}
  /\ aur_packages = {}
  /\ rd_files = [i \in 1..NumFiles |-> {}]
  /\ InitMain
  /\ InitCall
  /\ InitLoaderIdle

\* main computes key_is_valid
ApplyValidate ==
  /\ fn_in.f = "validate"
  /\ ~fn_out.done
  /\ fn_out' = [done |-> TRUE,
                valid |-> key_is_valid_of(fn_in.e, fn_in.official, fn_in.aur),
                fh |-> <<>>]
  /\ UNCHANGED fn_in
  /\ UNCHANGED <<mainVars, callVars, loaderVars>>

\* check_repology builds foreign_hits
ApplyNormalize ==
  /\ fn_in.f = "normalize"
  /\ ~fn_out.done
  /\ fn_out' = [done |-> TRUE, valid |-> FALSE, fh |-> ForeignHits(fn_in.e)]
  /\ UNCHANGED fn_in
  /\ UNCHANGED <<mainVars, callVars, loaderVars>>

NextFn ==
  \/ ApplyValidate
  \/ ApplyNormalize

SpecFn == InitFn /\ [][NextFn]_vars

(***************************************************************************)
(* Properties.                                                             *)
(***************************************************************************)
\* the entry l, read back as the 'arch' entry of a key, passes the validity test
PassesValidate(l) ==
  key_is_valid_of(<< <<"arch", List(l)>> >>, official_packages, aur_packages)

\* C1: an invalid key is counted under "official" exactly when its guess is an
\* official package (also when the guess is an AUR package too), under "aur"
\* exactly when the guess is an AUR package only, and under "repology" or
\* "n/a" only when the guess is in neither set; check_repology is entered,
\* and queries are issued, only for an invalid key whose guess is in neither
\* set.
C1_TierOrder ==
  /\ \A k \in DOMAIN tier :
       /\ tier[k] = "official" <=> Guess(k) \in official_packages
       /\ tier[k] = "aur" <=>
            Guess(k) \in aur_packages /\ Guess(k) \notin official_packages
       /\ tier[k] \in {"repology", "n/a"} <=>
            Guess(k) \notin official_packages \cup aur_packages
       /\ tier[k] \in {"official", "aur"} => missing_keys[k] = <<Guess(k)>>
  /\ pc = "query" =>
       /\ ~key_is_valid
       /\ Guess(key) \notin official_packages \cup aur_packages
  /\ queries # <<>> => pc = "query"

\* a key counted as official whose guess is an AUR package as well, and
\* another key that went to check_repology
C1_Witness ==
  /\ \E k \in DOMAIN tier : tier[k] = "official" /\ Guess(k) \in aur_packages
  /\ \E k \in DOMAIN tier : tier[k] \in {"repology", "n/a"}

\* the order in which the groups of one os are tried
Rank == [core |-> 1, extra |-> 2, community |-> 3, aur |-> 4]

\* the hits accumulated for the current os in group g
HitsOfGroup(g) == IF g = "aur" THEN ToSet(aur_hits) ELSE SubrepoHits(repo_hits, g)

\* g is the first group, in the order of Rank, that holds a hit
FirstGroup(g) == g \in GroupsHit /\ \A h \in GroupsHit : Rank[g] <= Rank[h]

\* this step is a return of check_repology from inside the loop over the os
ReturnsFromOs == pc = "query" /\ pc' = "main" /\ osi <= Len(foreign_hits)

\* C2: when check_repology returns for an os identifier, what it returns is
\* the filtered hits of the first of the groups core, extra, community, aur
\* that holds a hit, whatever the later groups hold: the filtered core hits
\* when core and extra both hold hits, and aur hits only when core, extra and
\* community hold none.
C2_GroupPriority ==
  [][ReturnsFromOs =>
       \E g \in GroupsHit :
         /\ FirstGroup(g)
         /\ ToSet(missing_keys'[key]) = filter_hits(key, HitsOfGroup(g))
         /\ g = "aur" => SubrepoHits(repo_hits, "core") \cup
                           SubrepoHits(repo_hits, "extra") \cup
                           SubrepoHits(repo_hits, "community") = {}
         /\ ("core" \in GroupsHit /\ "extra" \in GroupsHit) =>
              ToSet(missing_keys'[key]) =
                filter_hits(key, SubrepoHits(repo_hits, "core"))]_vars

\* a return from the core group of an os that had extra and aur hits too
C2_Witness ==
  /\ pc = "main"
  /\ ret.group = "core"
  /\ {"extra", "aur"} \subseteq ret.had

\* C3: no failure of a single repology query ends the run: the run is never
\* aborted by the exception of a query.
C3_FailureContained == ~(pc = "aborted" /\ failure = "parse")

\* this step ends the processing of a key
KeyStep ==
  \/ pc = "main" /\ seen' # seen /\ seen \subseteq seen' /\ pc' # "query"
  \/ pc = "query" /\ pc' # "query"

\* C5: the step that ends the processing of a key leaves stats and
\* missing_keys alone when the key is valid, and otherwise adds 1 to exactly
\* one counter and writes the entry of that key and no other, an empty list
\* exactly when the counter is "n/a"; no other step changes either.
C5_OneCounterOneEntry ==
  [][IF KeyStep
     THEN IF key_is_valid'
          THEN stats' = stats /\ missing_keys' = missing_keys
          ELSE \E t \in StatNames :
                 /\ stats' = [stats EXCEPT ![t] = @ + 1]
                 /\ DOMAIN missing_keys' = DOMAIN missing_keys \cup {key'}
                 /\ \A k \in DOMAIN missing_keys \ {key'} :
                      missing_keys'[k] = missing_keys[k]
                 /\ missing_keys'[key'] = <<>> <=> t = "n/a"
     ELSE stats' = stats /\ missing_keys' = missing_keys]_vars

\* the name n is one filter_hits drops for key k
Rejected(k, n) ==
  \/ \E s \in {"doc", "docs", "demos", "git", "svn", "hg"} : EndsWith(n, s)
  \/ StartsWith(k, "python") /\ StartsWith(n, "python")
  \/ StartsWith(k, "python3") /\ StartsWith(n, "python2")

\* C6: no name of a list that check_repology returned for a key is one the
\* filter rejects for that key.
C6_NoRejectedName ==
  \A k \in DOMAIN missing_keys :
    tier[k] \in {"repology", "n/a"} =>
      \A n \in ToSet(missing_keys[k]) : ~Rejected(k, n)

\* a non-empty result for a python- key, from a group of which the filter
\* dropped a name
C6_Witness ==
  /\ pc = "main"
  /\ key \in DOMAIN missing_keys
  /\ StartsWith(key, "python")
  /\ tier[key] = "repology"
  /\ ret.raw # ToSet(missing_keys[key])

RECURSIVE QueriesUpTo(_, _, _)
\* the queries issued when the loops stand at candidate c of os o
QueriesUpTo(fh, o, c) ==
  IF o = 0 \/ (o = 1 /\ c <= 1) THEN <<>>
  ELSE IF o > Len(fh) \/ c <= 1
       THEN QueriesUpTo(fh, o - 1, Len(fh[o - 1][2]) + 1)
       ELSE Append(QueriesUpTo(fh, o, c - 1), <<fh[o][1], fh[o][2][c - 1]>>)

\* the queries issued so far are those of the os identifiers before the
\* current one, in the order of foreign_hits, and of the current one
C7_InOrder == pc = "query" => queries = QueriesUpTo(foreign_hits, osi, ci)

\* C7 (as amended): check_repology queries the os identifiers in the order
\* of foreign_hits; it goes on to the next os identifier only when the
\* current one has no hit in any group, and returns, with no further query,
\* at the first os identifier that has one; what it returns is empty only
\* when no os identifier had a hit or when the filter rejects every hit of
\* the group that was selected.
C7_FirstOsWithHits ==
  /\ []C7_InOrder
  /\ [][(pc = "query" /\ pc' = "query" /\ osi' # osi) =>
          (osi' = osi + 1 /\ GroupsHit = {})]_vars
  /\ [][(pc = "query" /\ osi <= Len(foreign_hits)
           /\ ci > Len(foreign_hits[osi][2]) /\ GroupsHit # {}) =>
          (pc' = "main" /\ queries' = <<>>)]_vars
  /\ [][(pc = "query" /\ pc' = "main" /\ missing_keys'[key] = <<>>) =>
          \/ osi > Len(foreign_hits)
          \/ \E g \in GroupsHit :
               FirstGroup(g) /\ filter_hits(key, HitsOfGroup(g)) = {}]_vars

\* the first os identifier was passed over and the second returned from a
\* group whose hits the filter rejects
C7_Witness ==
  /\ pc = "main"
  /\ ret.os = 2
  /\ ret.raw # {}
  /\ key \in DOMAIN missing_keys
  /\ missing_keys[key] = <<>>

\* C7 (as claimed): what check_repology returns is empty only if no os
\* identifier had a hit that the filter lets through.
C7_EmptyOnlyIfNoSurvivor ==
  [][(pc = "query" /\ pc' = "main" /\ missing_keys'[key] = <<>>) =>
       \/ osi > Len(foreign_hits)
       \/ filter_hits(key, UNION {HitsOfGroup(g) : g \in GroupsHit}) = {}]_vars

\* C10 (as amended): every entry written for a key resolved by its guess
\* passes the validity test; the entry of a key counted as "n/a" is empty.
C10_GuessEntriesValid ==
  \A k \in DOMAIN missing_keys :
    /\ tier[k] \in {"official", "aur"} =>
         missing_keys[k] # <<>> /\ PassesValidate(missing_keys[k])
    /\ tier[k] = "n/a" => missing_keys[k] = <<>>
    /\ tier[k] = "repology" => missing_keys[k] # <<>>

\* a python- key resolved by its guess in the AUR set, and a key resolved by
\* check_repology
C10_Witness ==
  /\ \E k \in DOMAIN missing_keys :
       tier[k] = "aur" /\ StartsWith(k, "python") /\ missing_keys[k] = <<Guess(k)>>
  /\ \E k \in DOMAIN missing_keys : tier[k] = "repology"

\* C10 (as claimed): every non-empty entry passes the validity test.
C10_AllEntriesValid ==
  \A k \in DOMAIN missing_keys :
    missing_keys[k] # <<>> => PassesValidate(missing_keys[k])

\* the names of the 'arch' list of the argument of the validity test
ArchNames == ToSet(ArchOf(fn_in.e))

\* C4 (as amended): a key is valid if and only if it has an 'arch' entry and
\* either every name of the entry is an official package or every name is an
\* AUR package; an empty entry is valid, an absent or a mixed one is not.
C4_ValidIffAllInOneSet ==
  (fn_out.done /\ fn_in.f = "validate") =>
    /\ fn_out.valid <=>
         /\ HasArch(fn_in.e)
         /\ ArchNames \subseteq fn_in.official \/ ArchNames \subseteq fn_in.aur
    /\ (HasArch(fn_in.e) /\ ArchNames = {}) => fn_out.valid
    /\ ~HasArch(fn_in.e) => ~fn_out.valid

\* the test applied to an empty entry and found valid
C4_Witness ==
  /\ fn_out.done
  /\ fn_in.f = "validate"
  /\ HasArch(fn_in.e)
  /\ ArchOf(fn_in.e) = <<>>
  /\ fn_out.valid

\* C4 (as claimed): a key is valid if and only if its 'arch' entry is
\* present, non-empty, and all of its names are official packages or all are
\* AUR packages.
C4_ValidIffNonEmpty ==
  (fn_out.done /\ fn_in.f = "validate") =>
    (fn_out.valid <=>
       /\ HasArch(fn_in.e)
       /\ ArchOf(fn_in.e) # <<>>
       /\ ArchNames \subseteq fn_in.official \/ ArchNames \subseteq fn_in.aur)

\* the (os position, version position) pairs of mapping m that the
\* normalization takes up, each with its repology identifier and candidates;
\* a flat list has version position 0
Sources(m) ==
  { [i |-> i, j |-> 0, id |-> os_lut[m[i][1]]["*"], cands |-> m[i][2].l] :
      i \in {i \in DOMAIN m : m[i][1] \in DOMAIN os_lut /\ m[i][2].t = "list"} }
  \cup
  UNION { { [i |-> i, j |-> j, id |-> os_lut[m[i][1]][m[i][2].d[j][1]],
             cands |-> m[i][2].d[j][2].l] :
              j \in {j \in DOMAIN m[i][2].d :
                       /\ m[i][2].d[j][1] \in DOMAIN os_lut[m[i][1]]
                       /\ m[i][2].d[j][2].t # "none"} } :
          i \in {i \in DOMAIN m : m[i][1] \in DOMAIN os_lut /\ m[i][2].t = "dict"} }

\* source a comes before source b in the mapping
Before(a, b) == a.i < b.i \/ (a.i = b.i /\ a.j < b.j)

\* C8 (as amended): foreign_hits has one entry per repology identifier of a
\* pair the normalization takes up: the flat list of an os of the table,
\* under the wildcard identifier, and every non-null version of an os of the
\* table whose version is a key of the table ("*" included), under the
\* identifier of that version.  A version that is not in the table is
\* skipped, as are null values and the os names not in the table.  An entry
\* holds the candidates of the last pair with its identifier (an empty list
\* included), and the entries stand in the order of the first pair of each.
C8_Normalized ==
  (fn_out.done /\ fn_in.f = "normalize") =>
    LET fh == fn_out.fh
        src == Sources(fn_in.e)
    IN /\ \A a, b \in DOMAIN fh : a # b => fh[a][1] # fh[b][1]
       /\ {fh[a][1] : a \in DOMAIN fh} = {x.id : x \in src}
       /\ \A a \in DOMAIN fh :
            \E x \in src :
              /\ x.id = fh[a][1]
              /\ x.cands = fh[a][2]
              /\ \A y \in src : y.id = x.id => (y = x \/ Before(y, x))
       /\ \A a, b \in DOMAIN fh :
            a < b =>
              \E x \in src :
                /\ x.id = fh[a][1]
                /\ \A y \in src : y.id = fh[b][1] => Before(x, y)

\* a version-keyed mapping with a version of the table and a non-null
\* version that is not in the table: only the first is taken up
C8_Witness ==
  /\ fn_out.done
  /\ fn_in.f = "normalize"
  /\ fn_in.e[1][1] = "debian"
  /\ fn_in.e[1][2].t = "dict"
  /\ \E j \in DOMAIN fn_in.e[1][2].d :
       fn_in.e[1][2].d[j] = <<"jammy", List(<<"c1">>)>>
  /\ \E j \in DOMAIN fn_in.e[1][2].d :
       fn_in.e[1][2].d[j] = <<"buster", List(<<"c2">>)>>
  /\ fn_out.fh = << <<"debian_stable", <<"c2">>>> >>

\* C8 (as claimed): every non-null version of an os of the table has its
\* candidates in foreign_hits, under the identifier of the version when the
\* table has one and under the wildcard identifier of the os otherwise.
C8_WildcardFallback ==
  (fn_out.done /\ fn_in.f = "normalize") =>
    \A i \in DOMAIN fn_in.e :
      (fn_in.e[i][1] \in DOMAIN os_lut /\ fn_in.e[i][2].t = "dict") =>
        \A j \in DOMAIN fn_in.e[i][2].d :
          fn_in.e[i][2].d[j][2].t # "none" =>
            \E a \in DOMAIN fn_out.fh :
              fn_out.fh[a][1] =
                VersionIdWildcard(fn_in.e[i][1], fn_in.e[i][2].d[j][1])[1]

\* the names the members read so far should have added
NamesSoFar == expected \cup NamesOf(archive, lineno - 1)

\* C9 (as amended): the names the loader has collected are exactly the
\* stripped non-blank lines that stand, in their member, after a line that
\* contains %NAME% or %PROVIDES% with no blank line in between; nothing is
\* carried from one member to the next, and the names are one set.  A marker
\* line or a line of another field that stands in such a span is a name too.
C9_NamesBetweenMarkerAndBlank == pkgs = NamesSoFar

\* the one member with %NAME% zlib and %PROVIDES% libz, libz.so, read to its end
C9_Witness ==
  /\ members = 1
  /\ archive = << <<"%NAME%">>, <<"zlib">>, <<>>,
                  <<"%PROVIDES%">>, <<"libz">>, <<"libz.so">> >>
  /\ lineno > Len(archive)
  /\ pkgs = {<<"zlib">>, <<"libz">>, <<"libz.so">>}

\* C9 (as claimed): no marker line and no line of another field is ever
\* among the names.
C9_NoMarkerNoOtherField ==
  \A n \in pkgs :
    /\ \A i \in DOMAIN n : n[i] \notin {"%NAME%", "%PROVIDES%", "%DESC%"}
    /\ n # <<"text">>

====
